---- MODULE Spec2Model ----
(***************************************************************************)
(* Model of the R48 rectifier CAN tools.                                   *)
(*                                                                         *)
(*   rectifier.py          the command builder (set_voltage, ...), the     *)
(*                         transport wrapper send_can_message, the read    *)
(*                         loop and the printing listener;                 *)
(*   rectifier_grafana.py  the read loop, the aggregating listener and the *)
(*                         writer of the .prom file.                       *)
(*                                                                         *)
(* Numbers.  A Python float argument is modelled as an exact rational      *)
(* [n, d] with d > 0.  struct.pack('<f', x) rounds it to IEEE-754 binary32 *)
(* (round to nearest, ties to even) and emits the four bytes least         *)
(* significant first; struct.unpack('>f', b) reads four bytes most         *)
(* significant first.  A binary32 value is the record [sign, exp, frac] of *)
(* its three fields.  The inputs of the model are in the normal range of   *)
(* binary32, and their binary64 rounding error is far below half a         *)
(* binary32 ulp, so the rational gives the bytes Python gives.             *)
(***************************************************************************)
EXTENDS Integers, Sequences, FiniteSets, TLC

VARIABLES
    \* ---- rectifier.py, write path: the last command-builder call ----
    call,       \* [op, value, flag] of the last operation called, or NoCall
    handed,     \* <<data>> passed to send_can_message by that call, else <<>>
    busSent,    \* the can.Message objects given to bus.send by that call
    outcome,    \* "none" | "sent" | "ValueError" | "CanError"
    \* ---- rectifier.py, read path: the printing listener ----
    rprint,     \* [data, out]: the last frame given to the listener and
                \* what it printed (NoReading when it printed nothing)
    \* ---- rectifier.py, read path: receive_can_message ----
    rloop,      \* "start" | "send" | "sleep" | "ended"
    rsent,      \* the last can.Message given to bus.send by the loop
    \* ---- rectifier_grafana.py, read path ----
    loop,       \* receive_can_message: "start" | "send" | "sleep" | "ended"
    bus,        \* "closed" | "open" (the with-block of receive_can_message)
    notifier,   \* "none" | "running": can.Notifier(bus, [can_listener])
    requests,   \* can.Message objects given to bus.send by the read loop
                \* and not yet echoed back (receive_own_messages=True)
    pc,         \* position of the notifier thread in can_listener
    rx,         \* msg.data of the listener invocation in progress
    counter,    \* can_listener.counter
    vals,       \* the locals v_out, i_out, i_limit, temp, v_in by tag
    tmp,        \* /ramdisk/R48_RECTIFIER.prom.tmp
    published,  \* /ramdisk/R48_RECTIFIER.prom
    \* ---- history of the aggregation cycle (not program state) ----
    fed         \* tag -> value of the last reading with that tag received
                \* since the previous flush, NoVal when none

vars == <<call, handed, busSent, outcome, rprint, rloop, rsent, loop, bus,
          notifier, requests, pc, rx, counter, vals, tmp, published, fed>>

cmdVars == <<call, handed, busSent, outcome>>
getVars == <<rloop, rsent>>
readVars == <<loop, bus, notifier, requests, pc, rx, counter, vals, tmp,
              published, fed>>

----------------------------------------------------------------------------
(* Constants of the source.                                                *)

ARBITRATION_ID == 101187459          \* 0x0607FF83
ARBITRATION_ID_READ == 100665219     \* 0x06000783
\* Variant: the request given the shape of a reply for tag 0x01.
READ_ALL_as_reply == <<65, 240, 0, 1, 70, 165, 52, 0>>

READ_ALL == <<0, 240, 0, 128, 70, 165, 52, 0>>

Rat(n, d) == [n |-> n, d |-> d]

OUTPUT_CURRENT_RATED_VALUE == Rat(625, 10)
\* Variant: a percentage floor above what 5.5 A converts to.
OUTPUT_CURRENT_RATED_PERCENTAGE_MIN_11 == Rat(11, 1)

OUTPUT_CURRENT_RATED_PERCENTAGE_MIN == Rat(10, 1)
OUTPUT_CURRENT_RATED_PERCENTAGE_MAX == Rat(121, 1)
OUTPUT_VOLTAGE_MIN == Rat(410, 10)
OUTPUT_VOLTAGE_MAX == Rat(585, 10)
OUTPUT_CURRENT_MIN == Rat(55, 10)
OUTPUT_CURRENT_MAX == OUTPUT_CURRENT_RATED_VALUE

----------------------------------------------------------------------------
(* Float arithmetic of the command builder, on exact rationals.            *)

RatLeq(a, b) == a.n * b.d <= b.n * a.d
RatEq(a, b) == a.n * b.d = b.n * a.d
RatMul(a, b) == Rat(a.n * b.n, a.d * b.d)
\* a / b for b > 0
RatDiv(a, b) == Rat(a.n * b.d, a.d * b.n)

Abs(i) == IF i < 0 THEN 0 - i ELSE i

\* Scale N/D into [1, 2): the result <<N, D, e>> has N/D * 2^e unchanged.
RECURSIVE Normalise(_, _, _)
Normalise(N, D, e) ==
    IF N >= 2 * D THEN Normalise(N, 2 * D, e + 1)
    ELSE IF N < D THEN Normalise(2 * N, D, e - 1)
    ELSE <<N, D, e>>

\* Long division: k more bits of r/D (r < D); the result is <<q, r>>.
RECURSIVE FracBits(_, _, _, _)
FracBits(r, D, q, k) ==
    IF k = 0 THEN <<q, r>>
    ELSE IF 2 * r >= D THEN FracBits(2 * r - D, D, 2 * q + 1, k - 1)
    ELSE FracBits(2 * r, D, 2 * q, k - 1)

\* The binary32 nearest to the rational x (normal range).
Float32(x) ==
    IF x.n = 0 THEN [sign |-> 0, exp |-> 0, frac |-> 0]
    ELSE LET s == IF x.n < 0 THEN 1 ELSE 0
             nrm == Normalise(Abs(x.n), x.d, 0)
             D == nrm[2]
             qr == FracBits(nrm[1] - D, D, 0, 23)
             q == qr[1]
             r == qr[2]
             up == (2 * r > D) \/ (2 * r = D /\ q % 2 = 1)
             m == IF up THEN q + 1 ELSE q
         IN IF m = 8388608
            THEN [sign |-> s, exp |-> nrm[3] + 128, frac |-> 0]
            ELSE [sign |-> s, exp |-> nrm[3] + 127, frac |-> m]

\* The four bytes of a binary32, most significant first.
BytesBE(f) ==
    << f.sign * 128 + (f.exp \div 2),
       (f.exp % 2) * 128 + (f.frac \div 65536),
       (f.frac \div 256) % 256,
       f.frac % 256 >>

Reverse(s) == [i \in 1..Len(s) |-> s[Len(s) + 1 - i]]

\* Variant: struct.pack('>f', f), the byte order of the read direction.
float_to_bytearray_be(f) == BytesBE(Float32(f))

\* struct.pack('<f', f)
float_to_bytearray(f) == Reverse(BytesBE(Float32(f)))

\* struct.unpack('>f', b)[0]
unpack_be_f(b) ==
    [sign |-> b[1] \div 128,
     exp  |-> (b[1] % 128) * 2 + (b[2] \div 128),
     frac |-> (b[2] % 128) * 65536 + b[3] * 256 + b[4]]

\* Variant: the lower bound taken as exclusive.
validate_range_exclusive(value, min_val, max_val) ==
    ~RatLeq(value, min_val) /\ RatLeq(value, max_val)

\* TRUE when validate_range returns, FALSE when it raises ValueError.
validate_range(value, min_val, max_val) ==
    RatLeq(min_val, value) /\ RatLeq(value, max_val)

----------------------------------------------------------------------------
(* Inputs of the command builder: tenths of a unit around the bounds of    *)
(* the range table, a value below zero, and one whose binary32 pattern     *)
(* 3F 00 00 3F reads the same in both byte orders.                         *)

Tenths(S) == {Rat(t, 10) : t \in S}

Voltages == Tenths({0 - 10, 0, 409, 410, 520, 585, 586})
Percents == Tenths({0, 99, 100, 500, 1210, 1211})
Currents == Tenths({0, 54, 55, 300, 625, 626})
Seconds == Tenths({0, 15, 520}) \cup {Rat(8388671, 16777216)}
Amps == Tenths({0 - 10, 0, 160, 520}) \cup {Rat(8388671, 16777216)}

NoCall == [op |-> "none"]

----------------------------------------------------------------------------
(* rectifier.py: transport wrapper and command builder.                    *)

\* Variant: a failed bus.send is tried a second time.
send_can_message_retry(data, openOK, sendOK) ==
    LET msg == [arbitration_id |-> ARBITRATION_ID,
                data |-> data,
                is_extended_id |-> TRUE]
    IN /\ handed' = <<data>>
       /\ busSent' = IF ~openOK THEN << >>
                     ELSE IF sendOK THEN <<msg>> ELSE <<msg, msg>>
       /\ outcome' = IF openOK /\ sendOK THEN "sent" ELSE "CanError"

\* Variant: the message built with the arbitration id of the read requests.
send_can_message_read_id(data, openOK, sendOK) ==
    /\ handed' = <<data>>
    /\ busSent' = IF openOK
                  THEN << [arbitration_id |-> ARBITRATION_ID_READ,
                           data |-> data,
                           is_extended_id |-> TRUE] >>
                  ELSE << >>
    /\ outcome' = IF openOK /\ sendOK THEN "sent" ELSE "CanError"

\* send_can_message(channel, data); openOK and sendOK are the outcomes of
\* can.interface.Bus(...) and bus.send(msg): FALSE raises can.CanError,
\* which is caught and printed.
send_can_message(data, openOK, sendOK) ==
    /\ handed' = <<data>>
    /\ busSent' = IF openOK
                  THEN << [arbitration_id |-> ARBITRATION_ID,
                           data |-> data,
                           is_extended_id |-> TRUE] >>
                  ELSE << >>
    /\ outcome' = IF openOK /\ sendOK THEN "sent" ELSE "CanError"

\* validate_range raised: the ValueError leaves the operation.
raise_ValueError ==
    /\ handed' = << >>
    /\ busSent' = << >>
    /\ outcome' = "ValueError"

\* Variant: the two codes exchanged.
voltage_cmd_swapped(fixed) == IF fixed THEN 33 ELSE 36

\* cmd = 0x24 if fixed else 0x21
voltage_cmd(fixed) == IF fixed THEN 36 ELSE 33

\* cmd = 0x19 if fixed else 0x22
current_cmd(fixed) == IF fixed THEN 25 ELSE 34

\* [0x03, 0xF0, 0x00, cmd, *float_to_bytearray(voltage)]
set_voltage_data(voltage, fixed) ==
    <<3, 240, 0, voltage_cmd(fixed)>> \o float_to_bytearray(voltage)

\* [0x03, 0xF0, 0x00, cmd, *float_to_bytearray(percent / 100)]
set_current_percentage_data(percent, fixed) ==
    <<3, 240, 0, current_cmd(fixed)>>
        \o float_to_bytearray(RatDiv(percent, Rat(100, 1)))

\* Variant: the rated current taken as 100 percent.
current_to_percent_100(current) ==
    RatMul(RatDiv(current, OUTPUT_CURRENT_RATED_VALUE), Rat(100, 1))

\* percent = (current / OUTPUT_CURRENT_RATED_VALUE) * ..._PERCENTAGE_MAX
current_to_percent(current) ==
    RatMul(RatDiv(current, OUTPUT_CURRENT_RATED_VALUE),
           OUTPUT_CURRENT_RATED_PERCENTAGE_MAX)

\* data of walk_in: the 8-byte list, extended by the 4 bytes of the time
\* when enable is set
walk_in_data(time, enable) ==
    LET data == <<3, 240, 0, 50, 0, IF enable THEN 1 ELSE 0, 0, 0>>
    IN IF enable THEN data \o float_to_bytearray(time) ELSE data

\* [0x03, 0xF0, 0x00, 0x1A, *float_to_bytearray(current)]
limit_input_data(current) == <<3, 240, 0, 26>> \o float_to_bytearray(current)

\* [0x03, 0xF0, 0x00, 0x39, 0x00, 0x01 if state else 0x00, 0x00, 0x00]
restart_overvoltage_data(state) ==
    <<3, 240, 0, 57, 0, IF state THEN 1 ELSE 0, 0, 0>>

\* The body of set_current_percentage, also entered from set_current_value.
set_current_percentage_body(percent, fixed, openOK, sendOK) ==
    IF validate_range(percent, OUTPUT_CURRENT_RATED_PERCENTAGE_MIN,
                      OUTPUT_CURRENT_RATED_PERCENTAGE_MAX)
    THEN send_can_message(set_current_percentage_data(percent, fixed),
                          openOK, sendOK)
    ELSE raise_ValueError

set_voltage ==
    \E voltage \in Voltages, fixed \in BOOLEAN, openOK, sendOK \in BOOLEAN :
        /\ call' = [op |-> "set_voltage", value |-> voltage, flag |-> fixed]
        /\ IF validate_range(voltage, OUTPUT_VOLTAGE_MIN, OUTPUT_VOLTAGE_MAX)
           THEN send_can_message(set_voltage_data(voltage, fixed),
                                 openOK, sendOK)
           ELSE raise_ValueError
        /\ UNCHANGED <<rprint, getVars, readVars>>

set_current_percentage ==
    \E percent \in Percents, fixed \in BOOLEAN, openOK, sendOK \in BOOLEAN :
        /\ call' = [op |-> "set_current_percentage", value |-> percent,
                    flag |-> fixed]
        /\ set_current_percentage_body(percent, fixed, openOK, sendOK)
        /\ UNCHANGED <<rprint, getVars, readVars>>

set_current_value ==
    \E current \in Currents, fixed \in BOOLEAN, openOK, sendOK \in BOOLEAN :
        /\ call' = [op |-> "set_current_value", value |-> current,
                    flag |-> fixed]
        /\ IF validate_range(current, OUTPUT_CURRENT_MIN, OUTPUT_CURRENT_MAX)
           THEN set_current_percentage_body(current_to_percent(current),
                                            fixed, openOK, sendOK)
           ELSE raise_ValueError
        /\ UNCHANGED <<rprint, getVars, readVars>>

walk_in ==
    \E time \in Seconds, enable \in BOOLEAN, openOK, sendOK \in BOOLEAN :
        /\ call' = [op |-> "walk_in", value |-> time, flag |-> enable]
        /\ send_can_message(walk_in_data(time, enable), openOK, sendOK)
        /\ UNCHANGED <<rprint, getVars, readVars>>

limit_input ==
    \E current \in Amps, openOK, sendOK \in BOOLEAN :
        /\ call' = [op |-> "limit_input", value |-> current, flag |-> FALSE]
        /\ send_can_message(limit_input_data(current), openOK, sendOK)
        /\ UNCHANGED <<rprint, getVars, readVars>>

restart_overvoltage ==
    \E state \in BOOLEAN, openOK, sendOK \in BOOLEAN :
        /\ call' = [op |-> "restart_overvoltage", value |-> Rat(0, 1),
                    flag |-> state]
        /\ send_can_message(restart_overvoltage_data(state), openOK, sendOK)
        /\ UNCHANGED <<rprint, getVars, readVars>>

----------------------------------------------------------------------------
(* Inbound traffic.  msg.data of a frame on the bus: a head byte (0x41 for *)
(* a reply of the rectifier), the tag in data[3] (Python index) and four   *)
(* value bytes.  Readings carry 52.0 or 25.0 as the rectifier sends them,  *)
(* most significant byte first; Unrelated holds replies with a tag outside *)
(* 1..5 and frames with another head byte, with and without a tag in 1..5. *)

ValueBytes == { <<66, 80, 0, 0>>, <<65, 200, 0, 0>> }

Readings == { <<65, 240, 0, t>> \o v : t \in 1..5, v \in ValueBytes }

Unrelated == { <<65, 240, 0, 0, 66, 80, 0, 0>>,
               <<65, 240, 0, 6, 66, 80, 0, 0>>,
               <<65, 240, 0, 128, 66, 80, 0, 0>>,
               <<3, 240, 0, 33, 0, 0, 80, 66>>,
               <<64, 240, 0, 1, 66, 80, 0, 0>>,
               <<66, 240, 0, 5, 65, 200, 0, 0>> }

Inbound == Readings \cup Unrelated

NoFrame == << >>
Zero == [sign |-> 0, exp |-> 0, frac |-> 0]
NoVal == [sign |-> 2, exp |-> 0, frac |-> 0]
NoReading == [tag |-> 0, val |-> Zero]

\* Variant: the test of msg.data[0] left out.
is_reading_any_head(data) == data[4] \in 1..5

\* msg.data[0] == 0x41 and msg.data[3] matches one of the five cases
is_reading(data) == data[1] = 65 /\ data[4] \in 1..5

\* val = struct.unpack('>f', msg.data[4:8])[0]
reading_val(data) == unpack_be_f(SubSeq(data, 5, 8))

----------------------------------------------------------------------------
(* rectifier.py: the printing listener.                                    *)

rectifier_can_listener ==
    \E data \in Inbound \cup {READ_ALL} :
        /\ rprint' = [data |-> data,
                      out |-> IF is_reading(data)
                              THEN [tag |-> data[4], val |-> reading_val(data)]
                              ELSE NoReading]
        /\ UNCHANGED <<cmdVars, getVars, readVars>>

----------------------------------------------------------------------------
(* rectifier.py: the read loop of the "get" mode.                          *)

\* can.interface.Bus(receive_own_messages=True, ...) and can.Notifier(...)
rectifier_loop_open ==
    /\ rloop = "start"
    /\ \/ rloop' = "send"
       \/ rloop' = "ended"                   \* can.CanError, printed
    /\ UNCHANGED <<cmdVars, rprint, rsent, readVars>>

\* msg = can.Message(...READ_ALL...); bus.send(msg)
rectifier_loop_send ==
    /\ rloop = "send"
    /\ rsent' = << [arbitration_id |-> ARBITRATION_ID_READ,
                    data |-> READ_ALL,
                    is_extended_id |-> TRUE] >>
    /\ \/ rloop' = "sleep"
       \/ rloop' = "ended"                   \* can.CanError leaves the loop
    /\ UNCHANGED <<cmdVars, rprint, readVars>>

\* time.sleep(1.0)
rectifier_loop_sleep ==
    /\ rloop = "sleep"
    /\ rloop' = "send"
    /\ UNCHANGED <<cmdVars, rprint, rsent, readVars>>

----------------------------------------------------------------------------
(* rectifier_grafana.py: the read loop.                                    *)

MaxPending == 1

NoFile == [exists |-> FALSE, isopen |-> FALSE, lines |-> << >>]
NoVals == [t \in 1..5 |-> Zero]
NoFed == [t \in 1..5 |-> NoVal]

\* Variant: the error of a failed open is swallowed and the loop entered.
loop_open_continue ==
    /\ loop = "start"
    /\ \/ bus' = "open" /\ notifier' = "running" /\ loop' = "send"
       \/ bus' = bus /\ notifier' = notifier /\ loop' = "send"
    /\ UNCHANGED <<cmdVars, getVars, rprint, requests, pc, rx, counter, vals,
                   tmp, published, fed>>

\* can.interface.Bus(receive_own_messages=True, ...) and can.Notifier(...)
loop_open ==
    /\ loop = "start"
    /\ \/ bus' = "open" /\ notifier' = "running" /\ loop' = "send"
       \/ bus' = bus /\ notifier' = notifier /\ loop' = "ended"
          \* can.CanError, reported as "Receive went wrong"
    /\ UNCHANGED <<cmdVars, getVars, rprint, requests, pc, rx, counter, vals,
                   tmp, published, fed>>

\* msg = can.Message(...READ_ALL...); bus.send(msg)
loop_send ==
    /\ loop = "send"
    /\ \/ /\ Len(requests) < MaxPending
          /\ requests' = Append(requests,
                                [arbitration_id |-> ARBITRATION_ID_READ,
                                 data |-> READ_ALL,
                                 is_extended_id |-> TRUE])
          /\ loop' = "sleep"
          /\ bus' = bus
       \/ /\ requests' = requests            \* can.CanError leaves the loop
          /\ loop' = "ended"                 \* and the with-block
          /\ bus' = "closed"
    /\ UNCHANGED <<cmdVars, getVars, rprint, notifier, pc, rx, counter, vals,
                   tmp, published, fed>>

\* Variant: the read loop clears the listener's counter every interval.
loop_sleep_reset ==
    /\ loop = "sleep"
    /\ loop' = "send"
    /\ counter' = 0
    /\ UNCHANGED <<cmdVars, getVars, rprint, bus, notifier, requests, pc, rx,
                   vals, tmp, published, fed>>

\* time.sleep(10.0)
loop_sleep ==
    /\ loop = "sleep"
    /\ loop' = "send"
    /\ UNCHANGED <<cmdVars, getVars, rprint, notifier, bus, requests, pc, rx,
                   counter, vals, tmp, published, fed>>

----------------------------------------------------------------------------
(* rectifier_grafana.py: can_listener, run by the notifier thread of the   *)
(* bus for one message at a time.                                          *)

\* can_listener(msg) up to the test counter >= 5: the counter attribute
\* exists, the five locals are 0.0, the match statement sets one of them.
listener_decode(data) ==
    LET got == is_reading(data)
        tag == data[4]
        c == IF got THEN counter + 1 ELSE counter
    IN /\ counter' = c
       /\ fed' = IF got THEN [fed EXCEPT ![tag] = reading_val(data)] ELSE fed
       /\ IF c >= 5
          THEN /\ pc' = "open"
               /\ vals' = IF got
                          THEN [NoVals EXCEPT ![tag] = reading_val(data)]
                          ELSE NoVals
               /\ rx' = data
          ELSE /\ pc' = "idle"               \* can_listener returns
               /\ vals' = NoVals
               /\ rx' = NoFrame

\* The notifier thread takes a frame of the bus and calls can_listener.
listener_frame ==
    /\ bus = "open"
    /\ pc = "idle"
    /\ \E data \in Inbound : listener_decode(data)
    /\ UNCHANGED <<cmdVars, getVars, rprint, notifier, loop, bus, requests,
                   tmp, published>>

\* The same for an own request that comes back (receive_own_messages=True).
listener_echo ==
    /\ bus = "open"
    /\ pc = "idle"
    /\ requests # << >>
    /\ listener_decode(Head(requests).data)
    /\ requests' = Tail(requests)
    /\ UNCHANGED <<cmdVars, getVars, rprint, notifier, loop, bus, tmp,
                   published>>

\* Variant: the published path opened for writing in place.
listener_open_published ==
    /\ pc = "open"
    /\ published' = [exists |-> TRUE, lines |-> << >>]
    /\ tmp' = [exists |-> TRUE, isopen |-> TRUE, lines |-> << >>]
    /\ pc' = "print"
    /\ UNCHANGED <<cmdVars, getVars, rprint, notifier, loop, bus, requests,
                   rx, counter, vals, fed>>

\* fileObj = open('/ramdisk/R48_RECTIFIER.prom.tmp', mode='w')
listener_open ==
    /\ pc = "open"
    /\ \/ /\ tmp' = [exists |-> TRUE, isopen |-> TRUE, lines |-> << >>]
          /\ pc' = "print"
       \/ /\ tmp' = tmp                      \* OSError leaves can_listener
          /\ pc' = "dead"                    \* and ends the notifier thread
    /\ UNCHANGED <<cmdVars, getVars, rprint, notifier, loop, bus, requests,
                   rx, counter, vals, published, fed>>

Modes == <<"outputV", "outputI", "limitI", "temp", "inputV">>

\* The k-th print(dataStr, file=fileObj): v_out, i_out, i_limit, temp, v_in
prom_line(k, v) == [mode |-> Modes[k], value |-> v[k]]

listener_print ==
    /\ pc = "print"
    /\ Len(tmp.lines) < 5
    /\ tmp' = [tmp EXCEPT !.lines = Append(@, prom_line(Len(@) + 1, vals))]
    /\ UNCHANGED <<cmdVars, getVars, rprint, notifier, loop, bus, requests,
                   pc, rx, counter, vals, published, fed>>

\* fileObj.flush(); fileObj.close()
listener_close ==
    /\ pc = "print"
    /\ Len(tmp.lines) = 5
    /\ tmp' = [tmp EXCEPT !.isopen = FALSE]
    /\ pc' = "mv"
    /\ UNCHANGED <<cmdVars, getVars, rprint, notifier, loop, bus, requests,
                   rx, counter, vals, published, fed>>

\* os.system('/bin/mv ...prom.tmp ...prom')
listener_mv ==
    /\ pc = "mv"
    /\ published' = [exists |-> TRUE, lines |-> tmp.lines]
    /\ tmp' = NoFile
    /\ pc' = "reset"
    /\ UNCHANGED <<cmdVars, getVars, rprint, notifier, loop, bus, requests,
                   rx, counter, vals, fed>>

\* Variant: the counter is not cleared after the rename.
listener_reset_keep ==
    /\ pc = "reset"
    /\ counter' = counter
    /\ fed' = NoFed
    /\ vals' = NoVals
    /\ rx' = NoFrame
    /\ pc' = "idle"
    /\ UNCHANGED <<cmdVars, getVars, rprint, notifier, loop, bus, requests,
                   tmp, published>>

\* can_listener.counter = 0, and can_listener returns
listener_reset ==
    /\ pc = "reset"
    /\ counter' = 0
    /\ fed' = NoFed
    /\ vals' = NoVals
    /\ rx' = NoFrame
    /\ pc' = "idle"
    /\ UNCHANGED <<cmdVars, getVars, rprint, notifier, loop, bus, requests,
                   tmp, published>>

----------------------------------------------------------------------------
(* Specifications.                                                         *)

Init ==
    /\ call = NoCall
    /\ handed = << >>
    /\ busSent = << >>
    /\ outcome = "none"
    /\ rprint = [data |-> NoFrame, out |-> NoReading]
    /\ rloop = "start"
    /\ rsent = << >>
    /\ loop = "start"
    /\ bus = "closed"
    /\ notifier = "none"
    /\ requests = << >>
    /\ pc = "idle"
    /\ rx = NoFrame
    /\ counter = 0
    /\ vals = NoVals
    /\ tmp = NoFile
    /\ published = [exists |-> FALSE, lines |-> << >>]
    /\ fed = NoFed

\* rectifier.py
NextCmd ==
    \/ set_voltage
    \/ set_current_percentage
    \/ set_current_value
    \/ walk_in
    \/ limit_input
    \/ restart_overvoltage
    \/ rectifier_can_listener

\* rectifier_grafana.py
NextRead ==
    \/ loop_open
    \/ loop_send
    \/ loop_sleep
    \/ listener_frame
    \/ listener_echo
    \/ listener_open
    \/ listener_print
    \/ listener_close
    \/ listener_mv
    \/ listener_reset

\* rectifier.py, "get" mode
NextGet ==
    \/ rectifier_loop_open
    \/ rectifier_loop_send
    \/ rectifier_loop_sleep

\* Every step of either program that gives a message to bus.send.
NextSend ==
    \/ set_voltage
    \/ set_current_percentage
    \/ set_current_value
    \/ walk_in
    \/ limit_input
    \/ restart_overvoltage
    \/ rectifier_loop_open
    \/ rectifier_loop_send
    \/ rectifier_loop_sleep
    \/ loop_open
    \/ loop_send
    \/ loop_sleep

Next == NextCmd \/ NextGet \/ NextRead

SpecCmd == Init /\ [][NextCmd]_vars
SpecRead == Init /\ [][NextRead]_vars
SpecSend == Init /\ [][NextSend]_vars
Spec == Init /\ [][Next]_vars

----------------------------------------------------------------------------
(* Properties.                                                             *)

Flushing == {"open", "print", "mv", "reset"}
AllFed == \A t \in 1..5 : fed[t] # NoVal
PublishedValue(t) == published.lines[t].value

\* C1: a snapshot is written only when a reading for each of the five tags
\* 0x01..0x05 has been received since the previous flush; readings with
\* tags in {1,2,3,4} alone never start a flush.
C1_FlushOnlyAfterAllFiveTags == pc \in Flushing => AllFed

\* C2: after one reading for each of the five tags, in any order, the
\* snapshot just published carries for every property the value fed for
\* it, and outside a flush with nothing fed the count is 0.
C2_OneOfEachPublishesAllFive ==
    /\ (pc = "reset" /\ AllFed) =>
           /\ published.exists
           /\ \A t \in 1..5 : PublishedValue(t) = fed[t]
    /\ (pc = "idle" /\ fed = NoFed) => counter = 0

\* C3: in the snapshot just published, each property that was fed since
\* the previous flush has the value of the most recent reading with its
\* tag, whichever listener invocation received it.
C3_LastWriteWinsPerTag ==
    pc = "reset" =>
        \A t \in 1..5 : fed[t] # NoVal => PublishedValue(t) = fed[t]

\* C4: every payload passed to send_can_message, every message given to
\* bus.send and every request of the read loop has exactly 8 bytes.
C4_PayloadIsEightBytes ==
    /\ \A i \in DOMAIN handed : Len(handed[i]) = 8
    /\ \A i \in DOMAIN busSent : Len(busSent[i].data) = 8
    /\ \A i \in DOMAIN requests : Len(requests[i].data) = 8
    /\ Len(READ_ALL) = 8

\* lo/10 <= x <= hi/10
InTenths(x, lo, hi) == lo * x.d <= 10 * x.n /\ 10 * x.n <= hi * x.d

\* C5: set_voltage(v) passes a frame on iff 41.0 <= v <= 58.5,
\* set_current_percentage(p) iff 10 <= p <= 121, set_current_value(c) iff
\* 5.5 <= c <= 62.5; otherwise the call ends in ValueError and nothing
\* reaches bus.send.
C5_RangeValidationPrecedesSending ==
    /\ call.op = "set_voltage" =>
           (handed # << >> <=> InTenths(call.value, 410, 585))
    /\ call.op = "set_current_percentage" =>
           (handed # << >> <=> InTenths(call.value, 100, 1210))
    /\ call.op = "set_current_value" =>
           (handed # << >> <=> InTenths(call.value, 55, 625))
    /\ call.op \in {"set_voltage", "set_current_percentage",
                    "set_current_value"} =>
           /\ handed = << >> => outcome = "ValueError" /\ busSent = << >>
           /\ handed # << >> => outcome # "ValueError"

C5_Witness ==
    /\ call.op = "set_voltage"
    /\ call.value = Rat(410, 10)
    /\ outcome = "sent"

\* set_current_percentage(121.0, False) sends 03 F0 00 22 48 E1 9A 3F
Frame121 == <<3, 240, 0, 34, 72, 225, 154, 63>>

\* C6: set_current_value(c, fixed) with c in range passes on exactly the
\* frame of set_current_percentage(c / 62.5 * 121, fixed); for c = 62.5 and
\* for percent = 121.0, not fixed, it is the same frame.
C6_CurrentValueIsPercentageFrame ==
    /\ (call.op = "set_current_value" /\ InTenths(call.value, 55, 625)) =>
           handed = << set_current_percentage_data(
                           Rat(call.value.n * 1210, call.value.d * 625),
                           call.flag) >>
    /\ (call.op = "set_current_value" /\ call.value = Rat(625, 10)
            /\ ~call.flag) => handed = <<Frame121>>
    /\ (call.op = "set_current_percentage" /\ call.value = Rat(1210, 10)
            /\ ~call.flag) => handed = <<Frame121>>

C6_Witness ==
    /\ call.op = "set_current_value"
    /\ call.value = Rat(625, 10)
    /\ ~call.flag
    /\ outcome = "sent"
    /\ busSent[1].data = Frame121

IsUnrelated(data) == data[1] # 65 \/ data[4] \notin 1..5

\* C7: a listener invocation for a frame whose first byte is not 0x41, or
\* whose tag byte is outside 1..5, records no reading, leaves the counter
\* as it was and returns without touching either file.
C7_UnrelatedFramesIgnored ==
    [][\A data \in Inbound \cup {READ_ALL} :
          (IsUnrelated(data) /\ bus = "open" /\ pc = "idle"
              /\ listener_decode(data))
          => /\ counter' = counter
             /\ fed' = fed
             /\ pc' = "idle"
             /\ tmp' = tmp
             /\ published' = published]_vars

\* The own request has come back to the listener while four readings were
\* counted, and nothing was published.
C7_Witness ==
    /\ loop = "sleep"
    /\ requests = << >>
    /\ pc = "idle"
    /\ counter = 4
    /\ ~published.exists

PublishedComplete ==
    published.exists =>
        /\ Len(published.lines) = 5
        /\ \A k \in 1..5 : published.lines[k].mode = Modes[k]

\* C8: the published file is absent or a complete snapshot of 5 lines, one
\* per property in order; it changes only by the rename of a temporary file
\* that has its 5 lines and is closed.
C8_PublishedOnlyByRename ==
    /\ []PublishedComplete
    /\ [][published' # published =>
             /\ tmp.exists
             /\ ~tmp.isopen
             /\ Len(tmp.lines) = 5
             /\ published' = [exists |-> TRUE, lines |-> tmp.lines]
             /\ tmp' = NoFile]_vars

\* A snapshot is published while the next one is half written.
C8_Witness ==
    /\ published.exists
    /\ pc = "print"
    /\ tmp.isopen
    /\ Len(tmp.lines) = 2

\* C9: set-voltage frames begin 03 F0 00 21 (temporary) or 03 F0 00 24
\* (permanent), set-current frames 03 F0 00 22 or 03 F0 00 19, and go to
\* bus.send with the extended arbitration id 0x0607FF83.
C9_CommandCodes ==
    \A i \in DOMAIN busSent :
        LET m == busSent[i]
            head == SubSeq(m.data, 1, 4)
        IN /\ call.op = "set_voltage" =>
                  /\ head = <<3, 240, 0, IF call.flag THEN 36 ELSE 33>>
                  /\ m.arbitration_id = 101187459
                  /\ m.is_extended_id
           /\ call.op \in {"set_current_percentage", "set_current_value"} =>
                  /\ head = <<3, 240, 0, IF call.flag THEN 25 ELSE 34>>
                  /\ m.arbitration_id = 101187459
                  /\ m.is_extended_id

C9_Witness ==
    /\ call.op = "set_voltage"
    /\ call.flag
    /\ outcome = "sent"
    /\ busSent[1].data[4] = 36

\* C10: the four value bytes of a sent frame, read back as the listener
\* reads them, give the byte-reversed pattern of the value sent: the value
\* itself only when the bytes are a palindrome; 52.0 goes out as
\* 00 00 50 42 and does not read back as 52.0.
C10_ByteOrderAsymmetry ==
    (call.op \in {"set_voltage", "limit_input"} /\ handed # << >>) =>
        LET bytes == SubSeq(handed[1], 5, 8)
            back == unpack_be_f(bytes)
            f == Float32(call.value)
        IN /\ BytesBE(back) = Reverse(BytesBE(f))
           /\ (back = f) <=> (bytes = Reverse(bytes))
           /\ call.value = Rat(520, 10) =>
                  /\ bytes = <<0, 0, 80, 66>>
                  /\ f = [sign |-> 0, exp |-> 132, frac |-> 5242880]
                  /\ back = [sign |-> 0, exp |-> 0, frac |-> 20546]

C10_Witness ==
    /\ call.op = "set_voltage"
    /\ call.value = Rat(520, 10)
    /\ handed = << <<3, 240, 0, 33, 0, 0, 80, 66>> >>

\* C11: the counter equals the number of distinct tags received since the
\* last flush; a second reading of a tag does not raise it.
C11_CounterCountsDistinctTags ==
    counter = Cardinality({t \in 1..5 : fed[t] # NoVal})

\* C12: once the bus is open the read loop keeps sending; a failed send of
\* one request does not end the loop.
C12_FailedSendKeepsLoop ==
    [][(loop = "send" \/ loop = "sleep") =>
           (loop' = "send" \/ loop' = "sleep")]_vars

\* C13: an operation of the command builder gives at most one message to
\* bus.send; a CanError of the open or of the send is reported, the call
\* returns and the frame is not given to bus.send again.
C13_FireAndForget ==
    /\ Len(handed) <= 1
    /\ Len(busSent) <= Len(handed)
    /\ \A i \in DOMAIN busSent : busSent[i].data = handed[1]
    /\ outcome = "CanError" => Len(handed) = 1
    /\ outcome = "sent" => Len(busSent) = 1
    /\ call.op # "none" => outcome \in {"sent", "ValueError", "CanError"}

\* bus.send raised: one attempt was made and none followed.
C13_Witness ==
    /\ call.op = "limit_input"
    /\ outcome = "CanError"
    /\ Len(busSent) = 1

aggregator == <<pc, rx, counter, vals, tmp, published, fed>>

ReadRequest ==
    [arbitration_id |-> 100665219,
     data |-> <<0, 240, 0, 128, 70, 165, 52, 0>>,
     is_extended_id |-> TRUE]

\* C15: every message of a read loop is 00 F0 00 80 46 A5 34 00 on the
\* arbitration id 0x06000783, every message of the command builder is on
\* 0x0607FF83, and neither id is used by the other side.
C15_ArbitrationIdSeparation ==
    /\ \A i \in DOMAIN requests : requests[i] = ReadRequest
    /\ \A i \in DOMAIN rsent : rsent[i] = ReadRequest
    /\ \A i \in DOMAIN busSent :
           /\ busSent[i].arbitration_id = 101187459
           /\ busSent[i].is_extended_id
           /\ busSent[i].data # ReadRequest.data

C15_Witness ==
    /\ outcome = "sent"
    /\ requests # << >>
    /\ rsent # << >>

\* C16: when the bus cannot be opened, receive_can_message ends without a
\* notifier and without a request, and nothing happens afterwards.
C16_OpenFailureEndsReadPath ==
    /\ [](notifier = "none" =>
             /\ loop \in {"start", "ended"}
             /\ bus = "closed"
             /\ requests = << >>
             /\ pc = "idle"
             /\ counter = 0
             /\ ~published.exists)
    /\ [][(loop = "ended" /\ notifier = "none") =>
             /\ loop' = "ended"
             /\ notifier' = "none"]_vars

C16_Witness ==
    /\ loop = "ended"
    /\ notifier = "none"

\* C17: a current accepted by the check of set_current_value (5.5 to 62.5)
\* converts to a percentage within 10..121, so the call is not rejected
\* by set_current_percentage and its frame is passed on.
C17_AcceptedCurrentIsAcceptedPercent ==
    (call.op = "set_current_value"
        /\ validate_range(call.value, Rat(55, 10), Rat(625, 10))) =>
        /\ InTenths(Rat(call.value.n * 1210, call.value.d * 625), 100, 1210)
        /\ outcome # "ValueError"
        /\ Len(handed) = 1

C17_Witness ==
    /\ call.op = "set_current_value"
    /\ call.value = Rat(55, 10)
    /\ outcome = "sent"

\* C18: the counter is within 0..4 whenever no listener invocation is in
\* progress; it rises by at most 1 per step, reaches at most 5, and at 5
\* the invocation is in its flush, which ends with the counter at 0.
C18_CounterBounded ==
    /\ [](counter \in 0..5)
    /\ [](pc = "idle" => counter \in 0..4)
    /\ [](counter = 5 => pc \in Flushing \cup {"dead"})
    /\ [][/\ counter' <= counter + 1
          /\ (pc # "idle" /\ pc' = "idle") => counter' = 0]_vars

\* A flush has completed and the listener is between invocations.
C18_Witness ==
    /\ pc = "idle"
    /\ counter = 0
    /\ fed = NoFed
    /\ published.exists

\* C19: a request of the read loop that comes back to the listener begins
\* with 0x00 and changes neither the counter nor either file.
C19_OwnRequestIsNotTelemetry ==
    /\ [](\A i \in DOMAIN requests : requests[i].data[1] = 0)
    /\ [][Len(requests') < Len(requests) =>
             /\ pc = "idle"
             /\ pc' = "idle"
             /\ counter' = counter
             /\ fed' = fed
             /\ tmp' = tmp
             /\ published' = published]_vars

\* After a snapshot was published and readings counted again, a request
\* came back and the count stayed.
C19_Witness ==
    /\ loop = "sleep"
    /\ requests = << >>
    /\ pc = "idle"
    /\ counter = 3
    /\ published.exists

====
